---- MODULE Spec2Model ----
(***************************************************************************)
(* A model of sudoku.cpp: the parser in main, Board::assign, the recursive *)
(* search Board::find (as an explicit stack of activation records, one     *)
(* board copy per record) and the renderer Board::print.                   *)
(*                                                                         *)
(* Characters are their ASCII codes; a candidate mask is the unsigned      *)
(* integer the code keeps (bit d set: digit d can still be assigned).      *)
(***************************************************************************)
EXTENDS Integers, Sequences, FiniteSets, TLC

VARIABLES
    ndebug,     \* TRUE: built with -DNDEBUG (asserts compiled out)
    input,      \* the characters of stdin not yet read by getchar
    pc,         \* where the process is: "parse", "find", "done", "fatal", "abort"
    pos,        \* main's position counter
    b,          \* main's Board
    stack,      \* the active invocations of Board::find, innermost last
    stdout,     \* the characters written to cout
    emitted,    \* history: the boards Board::print was called on, in order
    nassign,    \* history: the number of calls of Board::assign so far
    lastAssign  \* history: the arguments and caller of the latest call of assign

vars == <<ndebug, input, pc, pos, b, stack, stdout, emitted, nassign, lastAssign>>

----------------------------------------------------------------------------
(* Characters *)

EOL == 10
SPACE == 32
ZERO == 48
UNDERSCORE == 95

isdigit(c) == c \in ZERO .. (ZERO + 9)

----------------------------------------------------------------------------
(* struct Cell *)

num_cells == 9 * 9

Cells == 0 .. (num_cells - 1)

Pow2 == [d \in 0 .. 10 |-> 2 ^ d]

\* (mask & (1 << dig)) != 0
TestBit(mask, dig) == (mask \div Pow2[dig]) % 2 = 1

\* Mutant: the constructor leaves the candidate mask 0
NewCellNoCandidates == [assigned_ |-> 0, assignable_ |-> 0]

\* Cell::Cell()
NewCell == [assigned_ |-> 0,
            assignable_ |-> Pow2[9] + Pow2[8] + Pow2[7] + Pow2[6] + Pow2[5]
                            + Pow2[4] + Pow2[3] + Pow2[2] + Pow2[1]]

\* bool Cell::assignable() const
assignable(x) == x.assignable_ # 0

\* Mutant: return assignable_ | (1 << dig), which is never 0
assignableDigOr(x, dig) ==
    (IF TestBit(x.assignable_, dig) THEN x.assignable_ ELSE x.assignable_ + Pow2[dig]) # 0

\* bool Cell::assignable(int dig) const
assignableDig(x, dig) == TestBit(x.assignable_, dig)

\* Mutant: assignable_ ^= (1 << dig), which sets a bit that was clear
cant_assignToggle(x, dig) ==
    [x EXCEPT !.assignable_ = IF TestBit(@, dig) THEN @ - Pow2[dig] ELSE @ + Pow2[dig]]

\* Mutant: assignable_ &= ~(1 << (dig - 1))
cant_assignShifted(x, dig) ==
    [x EXCEPT !.assignable_ =
        IF dig >= 1 /\ TestBit(@, dig - 1) THEN @ - Pow2[dig - 1] ELSE @]

\* void Cell::cant_assign(int dig): assignable_ &= ~(1 << dig)
cant_assign(x, dig) ==
    [x EXCEPT !.assignable_ = IF TestBit(@, dig) THEN @ - Pow2[dig] ELSE @]

----------------------------------------------------------------------------
(* struct Board *)

\* Board b; every cell default-constructed
NewBoard == [p \in Cells |-> NewCell]

\* Whether Board::assign(p, dig) calls cant_assign on cell q: q is in the
\* column, the row or the 3x3 box of p (p itself included: it is in its own
\* row and column)
Touched(p, q) ==
    LET row == p \div 9
        col == p % 9
        rb == row - (row % 3)
        cb == col - (col % 3)
    IN  \/ q % 9 = col
        \/ q \div 9 = row
        \/ /\ q \div 9 \in rb .. (rb + 2)
           /\ q % 9 \in cb .. (cb + 2)

\* Touched, tabulated
Unit == [p \in Cells |-> {q \in Cells : Touched(p, q)}]

\* Mutant: assign without its first loop, the one over the column
assignNoColumn(bd, p, dig) ==
    [q \in Cells |->
        IF q = p
        THEN cant_assign([bd[q] EXCEPT !.assigned_ = dig], dig)
        ELSE IF q \in Unit[p] /\ q % 9 # p % 9 THEN cant_assign(bd[q], dig)
        ELSE bd[q]]

\* Mutant: assign without its third loop, the one over the 3x3 box
assignNoBox(bd, p, dig) ==
    [q \in Cells |->
        IF q = p
        THEN cant_assign([bd[q] EXCEPT !.assigned_ = dig], dig)
        ELSE IF q % 9 = p % 9 \/ q \div 9 = p \div 9 THEN cant_assign(bd[q], dig)
        ELSE bd[q]]

\* Mutant: assign without its second loop, the one over the row
assignNoRow(bd, p, dig) ==
    [q \in Cells |->
        IF q = p
        THEN cant_assign([bd[q] EXCEPT !.assigned_ = dig], dig)
        ELSE IF q \in Unit[p] /\ q \div 9 # p \div 9 THEN cant_assign(bd[q], dig)
        ELSE bd[q]]

\* Mutant: assign returns at once
assignNothing(bd, p, dig) == bd

\* Mutant: assign without cell(pos).assigned_ = dig
assignNoTarget(bd, p, dig) ==
    [q \in Cells |-> IF q \in Unit[p] THEN cant_assign(bd[q], dig) ELSE bd[q]]

\* void Board::assign(int pos, int dig), its asserts aside
assign(bd, p, dig) ==
    [q \in Cells |->
        IF q = p
        THEN cant_assign([bd[q] EXCEPT !.assigned_ = dig], dig)
        ELSE IF q \in Unit[p] THEN cant_assign(bd[q], dig)
        ELSE bd[q]]

\* The asserts of Board::assign
assignAsserts(p, dig) == p >= 0 /\ p < num_cells /\ dig >= 1 /\ dig <= 9

\* Mutant: the scan takes the last cell for the end of the board
RECURSIVE ScanShort(_, _)
ScanShort(bd, p) ==
    IF p >= num_cells - 1 THEN num_cells
    ELSE IF bd[p].assigned_ = 0 THEN p
    ELSE ScanShort(bd, p + 1)

\* Mutant: the scan passes over an unassigned cell that has no candidate
RECURSIVE ScanSkipsDead(_, _)
ScanSkipsDead(bd, p) ==
    IF p = num_cells THEN p
    ELSE IF bd[p].assigned_ = 0 /\ assignable(bd[p]) THEN p
    ELSE ScanSkipsDead(bd, p + 1)

\* Mutant: ++pos before the first test of the loop
ScanFromNext(bd, p) ==
    CHOOSE q \in (p + 1) .. num_cells :
        /\ q = num_cells \/ bd[q].assigned_ = 0
        /\ \A r \in (p + 1) .. (q - 1) : bd[r].assigned_ # 0

\* The for (;;) loop of Board::find: the first position at or after p whose
\* cell is unassigned, or num_cells.  (The loop leaves pos at the least q >= p
\* with q = num_cells or cell(q).assigned_ == 0; it is stated so, and not as
\* a recursion 81 deep.)
Scan(bd, p) ==
    CHOOSE q \in p .. num_cells :
        /\ q = num_cells \/ bd[q].assigned_ = 0
        /\ \A r \in p .. (q - 1) : bd[r].assigned_ # 0

\* Mutant: the loop runs while dig < 9
digitsDoneEarly(dig) == ~(dig < 9)

\* The condition that ends the for (dig) loop of Board::find
digitsDone(dig) == ~(dig <= 9)

\* Mutant: print reads cell(c, r) for cell(r, c)
RECURSIVE PrintRowTransposed(_, _, _)
PrintRowTransposed(bd, r, c) ==
    IF c = 9 THEN <<EOL>>
    ELSE LET x == bd[c * 9 + r]
             ch == IF x.assigned_ # 0 THEN ZERO + x.assigned_ ELSE UNDERSCORE
         IN  <<ch>> \o (IF c = 2 \/ c = 5 THEN <<SPACE>> ELSE <<>>)
                    \o PrintRowTransposed(bd, r, c + 1)

\* The characters Board::print writes for row r, from column c on
RECURSIVE PrintRow(_, _, _)
PrintRow(bd, r, c) ==
    IF c = 9 THEN <<EOL>>
    ELSE LET x == bd[r * 9 + c]
             ch == IF x.assigned_ # 0 THEN ZERO + x.assigned_ ELSE UNDERSCORE
         IN  <<ch>> \o (IF c = 2 \/ c = 5 THEN <<SPACE>> ELSE <<>>)
                    \o PrintRow(bd, r, c + 1)

\* The characters Board::print writes, from row r on
RECURSIVE PrintRows(_, _)
PrintRows(bd, r) ==
    IF r = 9 THEN <<EOL>>
    ELSE PrintRow(bd, r, 0) \o PrintRows(bd, r + 1)

\* void Board::print() const
print(bd) == PrintRows(bd, 0)

----------------------------------------------------------------------------
(* The input streams of the model *)

MaxHoles == 3
MaxTail == 1
MaxCut == 2
MaxEdits == 1
MaxEmit == 1

\* The puzzle of the header comment, row-major, 0 for '_'
Example ==
    << 0,0,3, 8,6,0, 0,0,0,
       0,2,0, 0,0,0, 6,0,3,
       1,0,0, 0,0,0, 0,2,0,
       0,0,0, 3,0,0, 0,4,0,
       0,0,7, 0,0,1, 0,0,0,
       0,0,5, 0,0,4, 3,0,0,
       0,0,0, 0,1,0, 0,7,4,
       2,7,0, 0,0,3, 0,0,1,
       9,0,0, 2,0,0, 0,0,0 >>

\* The output the header comment documents for it
ExampleSolution ==
    << 7,5,3, 8,6,2, 4,1,9,
       4,2,9, 1,7,5, 6,8,3,
       1,8,6, 4,3,9, 7,2,5,
       6,9,2, 3,5,8, 1,4,7,
       3,4,7, 6,9,1, 8,5,2,
       8,1,5, 7,2,4, 3,9,6,
       5,3,8, 9,1,6, 2,7,4,
       2,7,4, 5,8,3, 9,6,1,
       9,6,1, 2,4,7, 5,3,8 >>

\* A grid (81 values, row-major, 0 for an empty cell) as a character stream.
\* laidOut: as the header comment writes sudoku1.txt (a space between the
\* groups of three, a newline after each row, a blank line between the bands);
\* otherwise the 81 cell characters alone.  hole: the character of an empty cell
RECURSIVE Text(_, _, _, _)
Text(g, hole, laidOut, i) ==
    IF i > num_cells THEN <<>>
    ELSE <<IF g[i] = 0 THEN hole ELSE ZERO + g[i]>>
         \o (IF ~laidOut THEN <<>>
             ELSE IF i % 27 = 0 /\ i < num_cells THEN <<EOL, EOL>>
             ELSE IF i % 9 = 0 THEN <<EOL>>
             ELSE IF i % 3 = 0 THEN <<SPACE>>
             ELSE <<>>)
         \o Text(g, hole, laidOut, i + 1)

\* The documented solution with the cells of H emptied
Punch(H) == [i \in 1 .. num_cells |-> IF (i - 1) \in H THEN 0 ELSE ExampleSolution[i]]

\* Grid g with the cells of o (pairs <<position, digit>>) overwritten
Put(g, o) ==
    [i \in 1 .. num_cells |->
        IF \E e \in o : e[1] = i - 1
        THEN (CHOOSE e \in o : e[1] = i - 1)[2]
        ELSE g[i]]

\* Cells emptied in any combination of at most MaxHoles: 1, 5, 10, 14 hold
\* 5 2 / 2 5 in the documented solution (emptied together they leave two
\* completions); 66 holds the 5 of column 3
HolePos == {1, 5, 10, 14, 66, 80}

HoleSets == {H \in SUBSET HolePos : Cardinality(H) <= MaxHoles}

\* The two top-left boxes, emptied as a whole: 18 empty cells, 8 completions
Wide == {r * 9 + c : r \in 0 .. 2, c \in 0 .. 5}

\* A 5 written over the 1 at row 1, column 3: it clashes with the 5 of row 1
\* (cell 14) and of column 3 (cell 66) unless both are emptied, and then cell 14
\* is left with no candidate
Overrides == {{}, {<<12, 5>>}}

Grids == {Put(Punch(R \cup H), o) : R \in {{}, Wide}, H \in HoleSets, o \in Overrides}

GridInputs == {Text(g, UNDERSCORE, FALSE, 1) : g \in Grids}

\* Streams that differ in form: the character of an empty cell, the layout,
\* characters after the 81st cell, characters missing at the end
HoleChars == {UNDERSCORE, ZERO, 46}

TailChars == {UNDERSCORE, ZERO, ZERO + 7, 120}

Tails == UNION {[1 .. n -> TailChars] : n \in 0 .. MaxTail}

Cut(s, k) == SubSeq(s, 1, Len(s) - k)

FormatGrid == Punch({1, 5})

FormatInputs ==
    {Text(FormatGrid, h, lay, 1) \o t : h \in HoleChars, lay \in BOOLEAN, t \in Tails}
    \cup {Cut(Text(FormatGrid, UNDERSCORE, lay, 1), k) : lay \in BOOLEAN, k \in 0 .. MaxCut}
    \cup {<<>>}

Inputs == GridInputs \cup FormatInputs

----------------------------------------------------------------------------
(* int main() *)

\* The guard of the call of assign in main
posInBoard(p) == p < num_cells

\* Mutant: no ++pos after a digit
afterDigitStays(p) == p

\* The ++pos that follows a digit
afterDigit(p) == p + 1

\* One turn of the while loop: getchar returned a character
ParseChar ==
    /\ pc = "parse"
    /\ input # <<>>
    /\ LET c == Head(input)
       IN  /\ input' = Tail(input)
           /\ IF c = UNDERSCORE
              THEN /\ pos' = pos + 1
                   /\ UNCHANGED <<b, pc, nassign, lastAssign>>
              ELSE IF isdigit(c)
              THEN IF posInBoard(pos)
                   THEN /\ nassign' = nassign + 1
                        /\ lastAssign' = [by |-> "main", pos |-> pos, dig |-> c - ZERO]
                        /\ IF ndebug \/ assignAsserts(pos, c - ZERO)
                           THEN /\ b' = assign(b, pos, c - ZERO)
                                /\ pos' = afterDigit(pos)
                                /\ pc' = pc
                           ELSE /\ pc' = "abort"
                                /\ UNCHANGED <<b, pos>>
                   ELSE /\ pos' = afterDigit(pos)
                        /\ UNCHANGED <<b, pc, nassign, lastAssign>>
              ELSE UNCHANGED <<pos, b, pc, nassign, lastAssign>>
    /\ UNCHANGED <<ndebug, stack, stdout, emitted>>

\* getchar returned EOF and pos != num_cells: the throw, which nothing catches
ParseFatal ==
    /\ pc = "parse"
    /\ input = <<>>
    /\ pos # num_cells
    /\ pc' = "fatal"
    /\ UNCHANGED <<ndebug, input, pos, b, stack, stdout, emitted, nassign, lastAssign>>

\* Mutant: the throw is guarded by pos < num_cells
CallFindLoose ==
    /\ pc = "parse"
    /\ input = <<>>
    /\ pos >= num_cells
    /\ pc' = "find"
    /\ stack' = <<[b |-> b, pos |-> 0, dig |-> 0, at |-> "scan"]>>
    /\ UNCHANGED <<ndebug, input, pos, b, stdout, emitted, nassign, lastAssign>>

\* getchar returned EOF and pos == num_cells: b.find(0)
CallFind ==
    /\ pc = "parse"
    /\ input = <<>>
    /\ pos = num_cells
    /\ pc' = "find"
    /\ stack' = <<[b |-> b, pos |-> 0, dig |-> 0, at |-> "scan"]>>
    /\ UNCHANGED <<ndebug, input, pos, b, stdout, emitted, nassign, lastAssign>>

----------------------------------------------------------------------------
(* void Board::find(int pos) const, one activation record per invocation:   *)
(* b is *this, pos the parameter, dig the loop variable, at the place       *)

Top == stack[Len(stack)]

\* Mutant: the caller goes on without ++dig
ReturnSameDigit(stk) ==
    IF Len(stk) = 1 THEN <<>> ELSE SubSeq(stk, 1, Len(stk) - 1)

\* Mutant: assign in place, no copy: the caller is left with the board of the
\* invocation that returns
ReturnLeaks(stk) ==
    IF Len(stk) = 1 THEN <<>>
    ELSE [SubSeq(stk, 1, Len(stk) - 1) EXCEPT ![Len(stk) - 1].dig = @ + 1,
                                              ![Len(stk) - 1].b = stk[Len(stk)].b]

\* The innermost invocation returns: its caller, if a find, goes on with ++dig;
\* if main, main returns
Return(stk) ==
    IF Len(stk) = 1 THEN <<>>
    ELSE [SubSeq(stk, 1, Len(stk) - 1) EXCEPT ![Len(stk) - 1].dig = @ + 1]

AfterReturn(stk) == IF Len(stk) = 1 THEN "done" ELSE "find"

\* The scan reaches num_cells: print() and return
FindEmit ==
    /\ pc = "find"
    /\ Top.at = "scan"
    /\ Scan(Top.b, Top.pos) = num_cells
    /\ stdout' = stdout \o print(Top.b)
    /\ emitted' = Append(emitted, Top.b)
    /\ stack' = Return(stack)
    /\ pc' = AfterReturn(stack)
    /\ UNCHANGED <<ndebug, input, pos, b, nassign, lastAssign>>

\* The scan stops at an unassigned cell with no candidate: return
FindDead ==
    /\ pc = "find"
    /\ Top.at = "scan"
    /\ LET p == Scan(Top.b, Top.pos)
       IN  /\ p # num_cells
           /\ ~assignable(Top.b[p])
    /\ stack' = Return(stack)
    /\ pc' = AfterReturn(stack)
    /\ UNCHANGED <<ndebug, input, pos, b, stdout, emitted, nassign, lastAssign>>

\* The scan stops at an unassigned cell with candidates: enter the digit loop
FindBranch ==
    /\ pc = "find"
    /\ Top.at = "scan"
    /\ LET p == Scan(Top.b, Top.pos)
       IN  /\ p # num_cells
           /\ assignable(Top.b[p])
           /\ stack' = [stack EXCEPT ![Len(stack)] =
                            [@ EXCEPT !.pos = p, !.dig = 1, !.at = "loop"]]
    /\ UNCHANGED <<ndebug, input, pc, pos, b, stdout, emitted, nassign, lastAssign>>

\* One turn of the digit loop on a candidate: copy the board, assign, recurse
FindCall ==
    /\ pc = "find"
    /\ Top.at = "loop"
    /\ ~digitsDone(Top.dig)
    /\ assignableDig(Top.b[Top.pos], Top.dig)
    /\ stack' = Append(stack, [b |-> assign(Top.b, Top.pos, Top.dig),
                               pos |-> Top.pos, dig |-> 0, at |-> "scan"])
    /\ nassign' = nassign + 1
    /\ lastAssign' = [by |-> "find", pos |-> Top.pos, dig |-> Top.dig]
    /\ UNCHANGED <<ndebug, input, pc, pos, b, stdout, emitted>>

\* One turn of the digit loop on a digit that is no candidate
FindSkip ==
    /\ pc = "find"
    /\ Top.at = "loop"
    /\ ~digitsDone(Top.dig)
    /\ ~assignableDig(Top.b[Top.pos], Top.dig)
    /\ stack' = [stack EXCEPT ![Len(stack)].dig = @ + 1]
    /\ UNCHANGED <<ndebug, input, pc, pos, b, stdout, emitted, nassign, lastAssign>>

\* The digit loop is over: return
FindReturn ==
    /\ pc = "find"
    /\ Top.at = "loop"
    /\ digitsDone(Top.dig)
    /\ stack' = Return(stack)
    /\ pc' = AfterReturn(stack)
    /\ UNCHANGED <<ndebug, input, pos, b, stdout, emitted, nassign, lastAssign>>

----------------------------------------------------------------------------
(* Runs of a.out on the input streams of the model, in either build *)

InitWith(in, nd) ==
    /\ ndebug = nd
    /\ input = in
    /\ pc = "parse"
    /\ pos = 0
    /\ b = NewBoard
    /\ stack = <<>>
    /\ stdout = <<>>
    /\ emitted = <<>>
    /\ nassign = 0
    /\ lastAssign = [by |-> "none", pos |-> 0, dig |-> 0]

Init == \E in \in Inputs, nd \in BOOLEAN : InitWith(in, nd)

Next ==
    \/ ParseChar
    \/ ParseFatal
    \/ CallFind
    \/ FindEmit
    \/ FindDead
    \/ FindBranch
    \/ FindCall
    \/ FindSkip
    \/ FindReturn

Spec == Init /\ [][Next]_vars

\* The same runs, where the process runs on while it can: single-threaded
\* code that never blocks
SpecFair == Init /\ [][Next]_vars /\ WF_vars(Next)

----------------------------------------------------------------------------
(* The run the header comment documents: a.out built with -DNDEBUG,         *)
(* sudoku1.txt on stdin.  Its search makes some 250,000 invocations of      *)
(* find, so this specification walks the call tree instead of the call      *)
(* stack: a state holds one invocation of find (stack is that invocation    *)
(* alone, its callers left out), and a step goes from an invocation to any  *)
(* one of the invocations its digit loop makes.  Every invocation of the    *)
(* run is a state, and every emission is a TreeEmit step.                   *)

InitExample == InitWith(Text(Example, UNDERSCORE, TRUE, 1), TRUE)

\* An invocation whose scan reaches num_cells: print()
TreeEmit ==
    /\ pc = "find"
    /\ Scan(Top.b, Top.pos) = num_cells
    /\ stdout' = print(Top.b)
    /\ emitted' = <<Top.b>>
    /\ stack' = <<>>
    /\ pc' = "returned"
    /\ UNCHANGED <<ndebug, input, pos, b, nassign, lastAssign>>

\* An invocation whose scan stops at a cell with no candidate
TreeDead ==
    /\ pc = "find"
    /\ LET p == Scan(Top.b, Top.pos)
       IN  /\ p # num_cells
           /\ ~assignable(Top.b[p])
    /\ stack' = <<>>
    /\ pc' = "returned"
    /\ UNCHANGED <<ndebug, input, pos, b, stdout, emitted, nassign, lastAssign>>

\* An invocation whose scan stops at a cell with candidates, and one of the
\* invocations its digit loop makes
TreeCall ==
    /\ pc = "find"
    /\ LET p == Scan(Top.b, Top.pos)
       IN  /\ p # num_cells
           /\ assignable(Top.b[p])
           /\ \E dig \in 1 .. 9 :
                /\ ~digitsDone(dig)
                /\ assignableDig(Top.b[p], dig)
                /\ stack' = <<[b |-> assign(Top.b, p, dig),
                               pos |-> p, dig |-> 0, at |-> "scan"]>>
                /\ lastAssign' = [by |-> "find", pos |-> p, dig |-> dig]
    /\ nassign' = nassign + 1
    /\ UNCHANGED <<ndebug, input, pc, pos, b, stdout, emitted>>

NextExample ==
    \/ ParseChar
    \/ CallFind
    \/ TreeEmit
    \/ TreeDead
    \/ TreeCall

SpecExample == InitExample /\ [][NextExample]_vars

----------------------------------------------------------------------------
(* The run on the empty board, in either build, up to its MaxEmit-th        *)
(* emission (the whole search emits every completed Sudoku grid)            *)

EmptyGrid == [i \in 1 .. num_cells |-> 0]

InitEmpty == \E nd \in BOOLEAN : InitWith(Text(EmptyGrid, UNDERSCORE, TRUE, 1), nd)

UnderCap == Len(emitted) < MaxEmit

NextEmpty ==
    \/ UnderCap /\ ParseChar
    \/ UnderCap /\ CallFind
    \/ UnderCap /\ FindEmit
    \/ UnderCap /\ FindDead
    \/ UnderCap /\ FindBranch
    \/ UnderCap /\ FindCall
    \/ UnderCap /\ FindSkip
    \/ UnderCap /\ FindReturn

\* The process runs on while it can: single-threaded code that never blocks
SpecEmpty == InitEmpty /\ [][NextEmpty]_vars /\ WF_vars(NextEmpty)

----------------------------------------------------------------------------
(* The round trip: a run on a fully assigned board, which prints it, and a  *)
(* second run of a.out with the characters of the first on stdin            *)

\* Cells overwritten with any digit, at most MaxEdits of them at a time
EditPos == {0, 40, 80}

Edits == UNION {[P -> 1 .. 9] : P \in {Q \in SUBSET EditPos : Cardinality(Q) <= MaxEdits}}

FullGrids ==
    {[i \in 1 .. num_cells |-> IF (i - 1) \in DOMAIN f THEN f[i - 1] ELSE ExampleSolution[i]]
        : f \in Edits}

InitRT == \E g \in FullGrids, nd \in BOOLEAN : InitWith(Text(g, UNDERSCORE, FALSE, 1), nd)

\* The second run starts, what the first wrote on its stdin: Board b; int pos = 0
Reparse ==
    /\ pc = "done"
    /\ Len(emitted) = 1
    /\ stdout # <<>>
    /\ input' = stdout
    /\ stdout' = <<>>
    /\ b' = NewBoard
    /\ pos' = 0
    /\ pc' = "parse"
    /\ UNCHANGED <<ndebug, stack, emitted, nassign, lastAssign>>

NextRT ==
    \/ ParseChar
    \/ CallFind
    \/ FindEmit
    \/ Reparse

SpecRT == InitRT /\ [][NextRT]_vars

----------------------------------------------------------------------------
(* The parse with Board::assign taken one call of Cell::cant_assign at a    *)
(* time.  While assign runs, stack holds its activation record: pos and dig *)
(* are its parameters and k counts the calls of cant_assign made so far     *)
(* (nine in the column loop, nine in the row loop, nine in the box loops)   *)

NumCalls == 27

\* The cell of the k-th call of cant_assign in assign(p, ...), k from 0
CallTarget(p, k) ==
    LET row == p \div 9
        col == p % 9
        rb == row - (row % 3)
        cb == col - (col % 3)
    IN  IF k < 9 THEN k * 9 + col
        ELSE IF k < 18 THEN row * 9 + (k - 9)
        ELSE (rb + ((k - 18) \div 3)) * 9 + (cb + ((k - 18) % 3))

\* The streams of this specification: one grid in its forms, and a grid with
\* a digit twice in a row and a column
CallInputs ==
    {Text(FormatGrid, h, FALSE, 1) \o t : h \in HoleChars, t \in Tails}
    \cup {Text(Put(Punch({}), {<<12, 5>>}), UNDERSCORE, FALSE, 1)}

InitCalls == \E in \in CallInputs, nd \in BOOLEAN : InitWith(in, nd)

\* A turn of the while loop of main that does not call assign
ParseOther ==
    /\ pc = "parse"
    /\ input # <<>>
    /\ ~(isdigit(Head(input)) /\ posInBoard(pos))
    /\ ParseChar

\* A turn of the while loop that calls assign: the asserts of assign and
\* cell(pos).assigned_ = dig
AssignEnter ==
    /\ pc = "parse"
    /\ input # <<>>
    /\ isdigit(Head(input))
    /\ posInBoard(pos)
    /\ input' = Tail(input)
    /\ nassign' = nassign + 1
    /\ lastAssign' = [by |-> "main", pos |-> pos, dig |-> Head(input) - ZERO]
    /\ IF ndebug \/ assignAsserts(pos, Head(input) - ZERO)
       THEN /\ b' = [b EXCEPT ![pos].assigned_ = Head(input) - ZERO]
            /\ stack' = <<[pos |-> pos, dig |-> Head(input) - ZERO, k |-> 0]>>
            /\ pc' = "assign"
       ELSE /\ pc' = "abort"
            /\ UNCHANGED <<b, stack>>
    /\ UNCHANGED <<ndebug, pos, stdout, emitted>>

\* One call of cant_assign of the loops of assign
AssignCall ==
    /\ pc = "assign"
    /\ Top.k < NumCalls
    /\ b' = [b EXCEPT ![CallTarget(Top.pos, Top.k)] = cant_assign(@, Top.dig)]
    /\ stack' = [stack EXCEPT ![Len(stack)].k = @ + 1]
    /\ UNCHANGED <<ndebug, input, pc, pos, stdout, emitted, nassign, lastAssign>>

\* assign returns to main: ++pos
AssignReturn ==
    /\ pc = "assign"
    /\ Top.k = NumCalls
    /\ pc' = "parse"
    /\ pos' = afterDigit(pos)
    /\ stack' = <<>>
    /\ UNCHANGED <<ndebug, input, b, stdout, emitted, nassign, lastAssign>>

NextCalls ==
    \/ ParseOther
    \/ AssignEnter
    \/ AssignCall
    \/ AssignReturn
    \/ ParseFatal

SpecCalls == InitCalls /\ [][NextCalls]_vars

----------------------------------------------------------------------------
(* What the claims speak of, stated on the assigned digits alone and        *)
(* without the tables of the model                                          *)

Row(p) == p \div 9

Col(p) == p % 9

Box(p) == 3 * (Row(p) \div 3) + (Col(p) \div 3)

\* The 20 cells that share a row, a column or a box with p
PeerSet ==
    [p \in Cells |->
        {q \in Cells : q # p /\ (Row(q) = Row(p) \/ Col(q) = Col(p) \/ Box(q) = Box(p))}]

\* The assigned digits of a board, 0 for an unassigned cell
Digits(bd) == [cell \in Cells |-> bd[cell].assigned_]

AllAssigned(bd) == \A p \in Cells : bd[p].assigned_ \in 1 .. 9

\* No digit twice in a row, a column or a box
NoDuplicate(bd) ==
    \A p \in Cells :
        LET v == bd[p].assigned_
        IN  v # 0 => \A q \in PeerSet[p] : bd[q].assigned_ # v

\* Every full grid that extends g and in which no filled-in digit repeats a
\* digit of a peer: the cells are filled from the last one down
RECURSIVE Completions(_, _)
Completions(grid, last) ==
    IF last < 0 THEN {grid}
    ELSE IF grid[last] # 0 THEN Completions(grid, last - 1)
    ELSE UNION {Completions([c \in Cells |-> IF c = last THEN d ELSE grid[c]], last - 1) :
                    d \in {e \in 1 .. 9 : \A q \in PeerSet[last] : grid[q] # e}}

\* f before g in lexicographic order, cell 0 first
LexLess(f, g) ==
    \E p \in Cells : f[p] < g[p] /\ \A q \in 0 .. (p - 1) : f[q] = g[q]

\* An unassigned cell with an empty candidate set
DeadCell(bd) == \E p \in Cells : bd[p].assigned_ = 0 /\ bd[p].assignable_ = 0

EmptyCells(bd) == {p \in Cells : bd[p].assigned_ = 0}

----------------------------------------------------------------------------
(* The claims *)

\* C1, as claimed: every board emitted by the search, on any board the parser
\* builds from an accepted input, has all 81 cells assigned a digit 1..9 and
\* no digit twice in a row, column or box.  (Stated of the board emitted last,
\* in every state: each emitted board is the last one when it is emitted.)
C1_AsClaimed ==
    emitted # <<>> =>
        AllAssigned(emitted[Len(emitted)]) /\ NoDuplicate(emitted[Len(emitted)])

\* C1, amended: every emitted board has all 81 cells assigned a digit 1..9;
\* and when the digits of the parsed board do not repeat in a row, column or
\* box, no digit repeats in a row, column or box of an emitted board.
C1_Soundness ==
    emitted # <<>> =>
        /\ AllAssigned(emitted[Len(emitted)])
        /\ NoDuplicate(b) => NoDuplicate(emitted[Len(emitted)])

\* C1: a consistent puzzle with empty cells has been searched and a board emitted
C1_Witness ==
    /\ pc = "done"
    /\ emitted # <<>>
    /\ NoDuplicate(b)
    /\ Cardinality(EmptyCells(b)) >= 3

\* C2: when the digits of the parsed board are mutually consistent, the boards
\* the finished search has emitted are exactly the full grids that extend the
\* parsed board with no digit twice in a row, column or box.
C2_AllCompletions ==
    (pc = "done" /\ NoDuplicate(b)) =>
        {Digits(emitted[i]) : i \in 1 .. Len(emitted)} = Completions(Digits(b), num_cells - 1)

\* C2: a finished search of a consistent puzzle with several completions
C2_Witness ==
    /\ pc = "done"
    /\ NoDuplicate(b)
    /\ Len(emitted) >= 2
    /\ Cardinality(Completions(Digits(b), num_cells - 1)) >= 2

\* C3: the emitted boards, read as 81-digit row-major strings, appear in
\* strictly increasing lexicographic order: each is greater than the one
\* emitted before it, so none is emitted twice.
C3_Order ==
    \A i \in 2 .. Len(emitted) :
        LexLess(Digits(emitted[i - 1]), Digits(emitted[i]))

\* C3: a finished search that emitted several boards
C3_Witness == pc = "done" /\ Len(emitted) >= 3

\* The output of the header comment, as it is printed there
DocRow(r) ==
    LET d(c) == ZERO + ExampleSolution[r * 9 + c]
    IN  <<d(1), d(2), d(3), SPACE, d(4), d(5), d(6), SPACE, d(7), d(8), d(9), EOL>>

DocOutput ==
    DocRow(0) \o DocRow(1) \o DocRow(2) \o DocRow(3) \o DocRow(4) \o DocRow(5)
    \o DocRow(6) \o DocRow(7) \o DocRow(8) \o <<EOL>>

\* C4: on the puzzle of the header comment, every invocation of find that
\* emits emits the documented grid, printed as documented.  (Two emitting
\* invocations hold different boards, so there is one emission.)
C4_Example ==
    emitted # <<>> =>
        /\ Digits(emitted[1]) = [p \in Cells |-> ExampleSolution[p + 1]]
        /\ stdout = DocOutput

\* C4: the search of the example has emitted
C4_Witness == pc = "returned" /\ emitted # <<>> /\ Cardinality(EmptyCells(b)) = 57

\* C5: if some unassigned cell of the board handed to find(0) has an empty
\* candidate set, wherever it lies, the search emits nothing.
C5_NoEmission ==
    (pc \in {"find", "done"} /\ DeadCell(b)) => emitted = <<>>

\* C5: a finished search of a board whose first empty cell has candidates and
\* a later empty cell has none
C5_Witness ==
    /\ pc = "done"
    /\ DeadCell(b)
    /\ \E p \in EmptyCells(b) :
            /\ \A q \in EmptyCells(b) : p <= q
            /\ b[p].assignable_ # 0
    /\ nassign > num_cells - Cardinality(EmptyCells(b))

\* C6: started on the empty board, the search eventually emits a board, fully
\* assigned and with no digit twice in a row, column or box.
C6_Completeness ==
    <>(/\ emitted # <<>>
       /\ AllAssigned(emitted[1])
       /\ NoDuplicate(emitted[1]))

\* C6: the search of the empty board has emitted
C6_Witness == emitted # <<>> /\ EmptyCells(b) = Cells

\* C7: find is invoked only with the stream read to its end and the counter at
\* 81, and then it is; with any other final counter the run ends in the fatal
\* state; a run that ends in error has emitted nothing; and no call of assign
\* gets a position outside 0..80.
C7_CellCount ==
    /\ pc \in {"find", "done"} => (input = <<>> /\ pos = num_cells)
    /\ pc \in {"parse", "fatal", "abort"} =>
            (stack = <<>> /\ emitted = <<>> /\ stdout = <<>>)
    /\ pc \in {"fatal", "abort"} => pos # num_cells
    /\ pc = "fatal" => input = <<>>
    /\ (pc = "parse" /\ input = <<>>) =>
            IF pos = num_cells
            THEN ENABLED CallFind /\ ~ENABLED ParseFatal
            ELSE ENABLED ParseFatal /\ ~ENABLED CallFind
    /\ nassign > 0 => lastAssign.pos \in Cells

\* C7: a stream with more than 81 cell characters has been rejected
C7_Witness == pc = "fatal" /\ pos > num_cells /\ nassign > 0

\* The characters the claim says advance the counter
CellChar(c) == c = UNDERSCORE \/ c \in (ZERO + 1) .. (ZERO + 9)

\* C8, as claimed: a character other than '1'..'9' and '_' leaves the counter
\* unchanged and causes no call of assign.
C8_AsClaimed ==
    [][(pc = "parse" /\ input # <<>> /\ ~CellChar(Head(input)))
            => (pos' = pos /\ nassign' = nassign)]_vars

\* The second run of the round trip: it has the first run's emission, and its
\* own output is still to come or has been added
SecondRun == Len(emitted) = 2 \/ (Len(emitted) = 1 /\ stdout = <<>>)

\* C9: the characters print writes for a fully assigned board, read by the
\* parser, are accepted (the counter ends at 81, no error) and build a board
\* with the same assigned digit in each of the 81 cells.
C9_RoundTrip ==
    SecondRun =>
        /\ pc \in {"parse", "find", "done"}
        /\ input = <<>> => pos = num_cells
        /\ input = <<>> => Digits(b) = Digits(emitted[1])

\* C9: the second run has parsed the first run's output and printed in turn
C9_Witness == pc = "done" /\ Len(emitted) = 2 /\ ~NoDuplicate(emitted[1])

\* Mask m has no bit that mask n lacks
SubMask(m, n) == \A d \in 0 .. 9 : ((m \div (2 ^ d)) % 2 = 1) => ((n \div (2 ^ d)) % 2 = 1)

\* No candidate set of board new has a digit that the set of the same cell of
\* board old lacks
Shrinks(new, old) ==
    \/ new = old
    \/ \A p \in Cells : SubMask(new[p].assignable_, old[p].assignable_)

\* C10: no step adds a digit to a candidate set of a board: not of main's
\* board, not of the board of an invocation of find that stays active; and the
\* candidate sets of the board of a new invocation are subsets of those of the
\* board it was copied from.
C10_Monotone ==
    [][/\ Shrinks(b', b)
       /\ \A i \in 1 .. Len(stack') :
            IF i <= Len(stack)
            THEN Shrinks(stack'[i].b, stack[i].b)
            ELSE Shrinks(stack'[i].b, IF i = 1 THEN b ELSE stack[i - 1].b)]_vars

\* C10: a chain of copies in which candidate sets have shrunk
C10_Witness ==
    /\ Len(stack) >= 3
    /\ \E p \in Cells : stack[3].b[p].assignable_ < b[p].assignable_
    /\ \E p \in Cells : b[p].assignable_ < NewCell.assignable_

\* The candidate set of a cell: the digits whose bit is set in its mask
Candidates(x) == {d \in 0 .. 10 : TestBit(x.assignable_, d)}

\* The digits assigned to the 20 peers of cell c
PeerDigits(bd, c) == {bd[q].assigned_ : q \in PeerSet[c]} \ {0}

\* Every unassigned cell of bd has as candidates exactly the digits 1..9 that
\* none of its 20 peers is assigned
CandidatesExact(bd) ==
    \A c \in Cells :
        bd[c].assigned_ = 0 => Candidates(bd[c]) = (1 .. 9) \ PeerDigits(bd, c)

\* C11: in main's board, at every point of the parse and after it, and in the
\* board of every active invocation of find, the candidate set of every
\* unassigned cell is exactly {1..9} minus the digits assigned to its 20 peers.
C11_Candidates ==
    /\ CandidatesExact(b)
    /\ \A i \in 1 .. Len(stack) : CandidatesExact(stack[i].b)

\* C11: a board built by the search whose unassigned cells have candidate
\* sets narrowed by peers, one of them by the search's own assignments
C11_Witness ==
    /\ Len(stack) >= 3
    /\ \E c \in Cells :
            /\ Top.b[c].assigned_ = 0
            /\ Top.b[c].assignable_ # 0
            /\ Top.b[c].assignable_ < b[c].assignable_

\* A step in which Board::assign is called, and one in which it also runs to
\* its end (in the debug build an assert may abort it)
AssignCalled == nassign' = nassign + 1

AssignRan == AssignCalled /\ pc' # "abort"

\* The board assign is called on, as the call finds it and as it leaves it:
\* main's board, or the copy find has made of the board of the invocation
BoardBefore == IF lastAssign'.by = "main" THEN b ELSE Top.b

BoardAfter == IF lastAssign'.by = "main" THEN b' ELSE stack'[Len(stack')].b

\* C12, as claimed: assign(position, digit) sets the assigned value of the
\* target to digit and removes digit from the candidate set of each of the 20
\* peers of the target; the candidate set of every cell that is not one of
\* those 20 peers and the assigned value of every cell but the target are
\* unchanged.
C12_AsClaimed ==
    [][AssignRan =>
        LET p == lastAssign'.pos
            dig == lastAssign'.dig
        IN  /\ BoardAfter[p].assigned_ = dig
            /\ \A q \in Cells :
                    /\ q # p => BoardAfter[q].assigned_ = BoardBefore[q].assigned_
                    /\ Candidates(BoardAfter[q]) =
                            IF q \in PeerSet[p]
                            THEN Candidates(BoardBefore[q]) \ {dig}
                            ELSE Candidates(BoardBefore[q])]_vars

\* C12, amended: assign(position, digit) sets the assigned value of the target
\* to digit and removes digit from the candidate set of the target and of each
\* of its 20 peers; the candidate set of every other cell and the assigned
\* value of every cell but the target are unchanged.
C12_Frame ==
    [][AssignRan =>
        LET p == lastAssign'.pos
            dig == lastAssign'.dig
        IN  /\ BoardAfter[p].assigned_ = dig
            /\ \A q \in Cells :
                    /\ q # p => BoardAfter[q].assigned_ = BoardBefore[q].assigned_
                    /\ Candidates(BoardAfter[q]) =
                            IF q \in PeerSet[p] \cup {p}
                            THEN Candidates(BoardBefore[q]) \ {dig}
                            ELSE Candidates(BoardBefore[q])]_vars

\* C12: the search has assigned a candidate digit to a cell that has peers
\* with the digit among their candidates, on a copy of a board of the search
C12_Witness ==
    /\ Len(stack) >= 3
    /\ lastAssign.by = "find"
    /\ Top.b[lastAssign.pos].assigned_ = lastAssign.dig
    /\ \E q \in PeerSet[lastAssign.pos] :
            /\ lastAssign.dig \in Candidates(stack[Len(stack) - 1].b[q])
            /\ lastAssign.dig \notin Candidates(Top.b[q])

\* A step that is one call of Cell::cant_assign, the cell it is called on
\* before and after it, and its argument
ForbidCall == pc = "assign" /\ pc' = "assign"

ForbidCellBefore == b[CallTarget(Top.pos, Top.k)]

ForbidCellAfter == b'[CallTarget(Top.pos, Top.k)]

\* C13, as claimed: cant_assign(digit) leaves the cell entirely unchanged when
\* digit is absent from its candidate set or when the cell is assigned;
\* otherwise it removes exactly digit from the candidate set and leaves the
\* assigned value unchanged.
C13_AsClaimed ==
    [][ForbidCall =>
        IF Top.dig \notin Candidates(ForbidCellBefore) \/ ForbidCellBefore.assigned_ # 0
        THEN ForbidCellAfter = ForbidCellBefore
        ELSE /\ Candidates(ForbidCellAfter) = Candidates(ForbidCellBefore) \ {Top.dig}
             /\ ForbidCellAfter.assigned_ = ForbidCellBefore.assigned_]_vars

\* C13, amended: cant_assign(digit) leaves the cell entirely unchanged when
\* digit is absent from its candidate set; otherwise, whether the cell is
\* assigned or not, it removes exactly digit from the candidate set and leaves
\* the assigned value unchanged.
C13_Forbid ==
    [][ForbidCall =>
        IF Top.dig \notin Candidates(ForbidCellBefore)
        THEN ForbidCellAfter = ForbidCellBefore
        ELSE /\ Candidates(ForbidCellAfter) = Candidates(ForbidCellBefore) \ {Top.dig}
             /\ ForbidCellAfter.assigned_ = ForbidCellBefore.assigned_]_vars

\* C13: the calls of one assign are made; they have taken the digit from an
\* unassigned cell and from a cell assigned another digit, and one of them
\* was on the target, which had lost the digit by then
C13_Witness ==
    /\ pc = "assign"
    /\ Top.k = NumCalls
    /\ Top.dig \in 1 .. 9
    /\ \E q \in PeerSet[Top.pos] :
            b[q].assigned_ = 0 /\ Top.dig \notin Candidates(b[q])
    /\ \E q \in PeerSet[Top.pos] :
            /\ b[q].assigned_ \notin {0, Top.dig}
            /\ Candidates(b[q]) = ((1 .. 9) \ {Top.dig}) \ {b[q].assigned_}

\* C14: when the board handed to find(0) has no digit twice in a row, column
\* or box, neither has the board of any invocation of the search (each is the
\* innermost one when it is made), and each assign the search issues has a
\* digit that is a candidate of the target cell and that no peer of the target
\* is assigned.
C14_Preserved ==
    [][(pc' = "find" /\ NoDuplicate(b')) =>
        /\ NoDuplicate(stack'[Len(stack')].b)
        /\ (AssignCalled /\ lastAssign'.by = "find") =>
                /\ lastAssign'.dig \in Candidates(BoardBefore[lastAssign'.pos])
                /\ lastAssign'.dig \notin PeerDigits(BoardBefore, lastAssign'.pos)]_vars

\* C14: the search of a board with no digit twice has assigned several cells
C14_Witness ==
    /\ pc = "find"
    /\ NoDuplicate(b)
    /\ Len(stack) >= 4
    /\ lastAssign.by = "find"
    /\ Cardinality(EmptyCells(Top.b)) + 3 <= Cardinality(EmptyCells(b))

\* Board new is board old but for digit dig: the same assigned values except
\* dig at cell p, and candidate sets that differ from those of old by dig at most
CopyBut(new, old, p, dig) ==
    \A q \in Cells :
        /\ new[q].assigned_ = IF q = p THEN dig ELSE old[q].assigned_
        /\ Candidates(new[q]) \cup {dig} = Candidates(old[q]) \cup {dig}

\* C15: no step changes the board of an invocation of find that is active
\* before and after it, nor main's board once find(0) is called: the board of
\* an invocation is the same before and after each call it makes.  And the
\* board of a new invocation is the board of its caller but for the digit of
\* this branch: nothing of the branches tried before it.
C15_Independent ==
    [][/\ pc = "find" => b' = b
       /\ \A i \in 1 .. Len(stack) : i <= Len(stack') => stack'[i].b = stack[i].b
       /\ Len(stack') > Len(stack) /\ stack # <<>> =>
                CopyBut(stack'[Len(stack')].b, Top.b, Top.pos, Top.dig)]_vars

\* C15: an invocation has made a call for a later candidate digit of its cell,
\* after the call for an earlier one has returned
C15_Witness ==
    /\ Len(stack) >= 3
    /\ Top.at = "scan"
    /\ LET up == stack[Len(stack) - 1]
       IN  /\ up.at = "loop"
           /\ lastAssign = [by |-> "find", pos |-> up.pos, dig |-> up.dig]
           /\ \E d \in 1 .. (up.dig - 1) : d \in Candidates(up.b[up.pos])

\* Board new has every assigned value of board old
Agrees(new, old) ==
    \A q \in Cells : old[q].assigned_ # 0 => new[q].assigned_ = old[q].assigned_

\* C16: every call of assign, by main or by find, has a target cell that is
\* unassigned in the board it is called on; no step changes the assigned
\* value of a cell of main's board that has one; and the board of every
\* invocation of find agrees with the board of its caller (for find(0), with
\* main's board) on every cell assigned there.
C16_AssignedOnce ==
    [][/\ AssignCalled => BoardBefore[lastAssign'.pos].assigned_ = 0
       /\ Agrees(b', b)
       /\ \A i \in 1 .. Len(stack') :
            Agrees(stack'[i].b, IF i = 1 THEN b' ELSE stack'[i - 1].b)]_vars

\* C16: parse and search have both assigned cells, the search five deep
C16_Witness ==
    /\ Len(stack) >= 5
    /\ lastAssign.by = "find"
    /\ b[lastAssign.pos].assigned_ = 0
    /\ Top.b[lastAssign.pos].assigned_ = lastAssign.dig
    /\ \E q \in Cells : b[q].assigned_ # 0

\* C17, as claimed: the number of active invocations of find, find(0)
\* included, never exceeds 81, the cell count.
C17_AsClaimed == Len(stack) <= num_cells

\* C17, amended: the number of active invocations of find, find(0) included,
\* never exceeds 82, the cell count plus one.
C17_Depth == Len(stack) <= num_cells + 1

\* C17: on the empty board, the invocation that emits has 81 callers
C17_Witness ==
    /\ Len(stack) = num_cells + 1
    /\ EmptyCells(b) = Cells
    /\ AllAssigned(Top.b)

\* The number of assigned cells of a board
NumAssigned(bd) == num_cells - Cardinality(EmptyCells(bd))

\* A step in which an invocation of find calls find, and one in which an
\* invocation returns to an invocation of find
Recurses == stack # <<>> /\ Len(stack') = Len(stack) + 1

Returns == Len(stack) >= 2 /\ Len(stack') = Len(stack) - 1

\* C18: find(0), once called, returns.  Each invocation a find calls has a
\* board with exactly one more assigned cell than the board of its caller.  An
\* invocation calls at digits 1..9 only, and its digit grows by one with each
\* call that returns and never shrinks: at most 9 calls.  And an invocation
\* whose board has no unassigned cell at or after its position emits the
\* board and returns, with no call.
C18_Terminates ==
    /\ (pc = "find") ~> (pc = "done")
    /\ [][Recurses =>
            /\ NumAssigned(stack'[Len(stack')].b) = NumAssigned(Top.b) + 1
            /\ Top.dig \in 1 .. 9
            /\ stack'[Len(stack)].dig = Top.dig]_vars
    /\ [][/\ Returns => stack'[Len(stack')].dig = stack[Len(stack')].dig + 1
          /\ \A i \in 1 .. Len(stack) :
               i <= Len(stack') => stack'[i].dig >= stack[i].dig]_vars
    /\ [][(/\ pc = "find"
           /\ Top.at = "scan"
           /\ \A c \in Cells : c >= Top.pos => Top.b[c].assigned_ # 0) =>
                /\ emitted' = Append(emitted, Top.b)
                /\ stack' = Return(stack)]_vars

\* C18: a search that made ten recursive calls or more has returned
C18_Witness ==
    /\ pc = "done"
    /\ lastAssign.by = "find"
    /\ nassign >= NumAssigned(b) + 10

\* C19: in the board of every active invocation of find, every cell below the
\* invocation's position (its argument while it scans, the position its scan
\* stopped at afterwards) is assigned; no emitted board has an unassigned
\* cell, and no '_' is printed.
C19_Prefix ==
    /\ \A i \in 1 .. Len(stack) :
            \A c \in 0 .. (stack[i].pos - 1) : stack[i].b[c].assigned_ # 0
    /\ \A i \in 1 .. Len(emitted) : EmptyCells(emitted[i]) = {}
    /\ \A k \in 1 .. Len(stdout) : stdout[k] # UNDERSCORE

\* C19: a scan has stopped past cells that the search itself assigned, and a
\* board has been emitted before
C19_Witness ==
    /\ Len(stack) >= 2
    /\ Top.at = "loop"
    /\ emitted # <<>>
    /\ \E c \in 0 .. (Top.pos - 1) : b[c].assigned_ = 0 /\ Top.b[c].assigned_ # 0

====
